---- MODULE Spec2Model ----
(***************************************************************************)
(* Model of the vibe-session router (routers/vibe.js) of diya-backend and  *)
(* of the tables it works on (prisma migrations).                          *)
(*                                                                         *)
(* The store is the four tables vibe_sessions, vibe_participants,          *)
(* vibe_queue and vibe_invitations.  Every route handler is an async       *)
(* function: it runs up to its next `await prisma...` call, the store      *)
(* performs that one call atomically, and other handlers may run before    *)
(* the handler goes on.  So every store call of a handler is one action,   *)
(* and a request in flight is a record (op, pc, locals) in a slot of req.  *)
(*                                                                         *)
(* Left out of the rows: the columns no handler decides on (name,          *)
(* description, startedAt, joinedAt, addedAt, duration, createdAt,         *)
(* invitedBy).  songName stands for the three descriptive                  *)
(* columns songName / artistName / imageUrl, which every handler copies    *)
(* together.                                                               *)
(***************************************************************************)
EXTENDS Integers, Sequences, FiniteSets, TLC

VARIABLES
  vibeSessions,       \* table vibe_sessions: sequence, id = index (SERIAL)
  vibeParticipants,   \* table vibe_participants: sequence, id = index
  vibeQueue,          \* table vibe_queue: set of rows (rows can be deleted)
  queueSeq,           \* the SERIAL of vibe_queue.id
  vibeInvitations,    \* table vibe_invitations: sequence, id = index
  req,                \* the request handled in each slot, or its response
  now,                \* the clock `new Date()` reads
  endOk,              \* ids of the sessions whose end request answered 200
  audit               \* whether a slot keeps the response it has sent

vars == <<vibeSessions, vibeParticipants, vibeQueue, queueSeq,
          vibeInvitations, req, now, endOk, audit>>

store == <<vibeSessions, vibeParticipants, vibeQueue, queueSeq, vibeInvitations>>

(***************************************************************************)
(* Bounds and input sets                                                   *)
(***************************************************************************)
MaxClock == 2
MaxQueue == 2
MaxInvitations == 2
MaxLongQueue == 3

Users      == {1, 2}
SessionIds == {1}
TwoSessionIds == {1, 2}
Slots      == {1, 2}
Null       == "null"        \* SQL NULL / JS null in a text column
NoTime     == 0             \* NULL in a timestamp column
NoFields   == [x \in {} |-> 0]

Idle == [op |-> "none", pc |-> "done", user |-> 0, id |-> 0,
         body |-> NoFields, loc |-> NoFields, code |-> 0]

\* the state after start-up: empty tables, no request in flight.  With
\* audit a slot shows the last response until it takes the next request;
\* without it the slot is cleared when the response is sent.
InitWith(a) ==
  /\ audit = a
  /\ vibeSessions = << >>
  /\ vibeParticipants = << >>
  /\ vibeQueue = {}
  /\ queueSeq = 0
  /\ vibeInvitations = << >>
  /\ req = [i \in Slots |-> Idle]
  /\ now = 1
  /\ endOk = {}

Init == InitWith(FALSE)

InitAudit == InitWith(TRUE)

\* time passes between two store calls
Tick ==
  /\ now < MaxClock
  /\ now' = now + 1
  /\ UNCHANGED <<store, req, endOk, audit>>

(***************************************************************************)
(* Requests                                                                *)
(***************************************************************************)
\* a slot is free when its last request has been answered
Free(i) == req[i].pc = "done"

Request(op, pc, u, id, body, loc) ==
  [op |-> op, pc |-> pc, user |-> u, id |-> id, body |-> body, loc |-> loc, code |-> 0]

\* res.status(code).json(...): the handler returns
Answered(op, u, id, body, loc, code) ==
  IF audit
  THEN [op |-> op, pc |-> "done", user |-> u, id |-> id, body |-> body,
        loc |-> loc, code |-> code]
  ELSE Idle

Respond(i, code) ==
  IF audit THEN [req EXCEPT ![i].pc = "done", ![i].code = code]
  ELSE [req EXCEPT ![i] = Idle]

Goto(i, pc) == [req EXCEPT ![i].pc = pc]

Running(i, op, pc) == req[i].op = op /\ req[i].pc = pc

(***************************************************************************)
(* Store calls                                                             *)
(***************************************************************************)
\* prisma.vibeSession.findUnique({ where: { id } }): does the row exist
SessionExists(sid) == sid \in DOMAIN vibeSessions

\* the rows of vibe_participants a where-clause on sessionId selects
ParticipantsOf(sid) ==
  {p \in DOMAIN vibeParticipants : vibeParticipants[p].sessionId = sid}

\* the count without the filter: _count: { select: { participants: true } }
AllRowsCount(sid) == Cardinality(ParticipantsOf(sid))

\* the count with the filter turned round: { where: { isActive: false } }
InactiveCount(sid) ==
  Cardinality({p \in ParticipantsOf(sid) : ~vibeParticipants[p].isActive})

\* _count: { participants: { where: { isActive: true } } }
ActiveCount(sid) ==
  Cardinality({p \in ParticipantsOf(sid) : vibeParticipants[p].isActive})

\* _count: { select: { participants: true } } of join: every row counts
JoinCount(sid) == Cardinality(ParticipantsOf(sid))

\* prisma.vibeParticipant.findUnique({ where: { sessionId_userId } }): the
\* id of the row, 0 for null
FindParticipant(sid, u) ==
  LET found == {p \in ParticipantsOf(sid) : vibeParticipants[p].userId = u}
  IN IF found = {} THEN 0 ELSE CHOOSE p \in found : \A q \in found : p <= q

\* vibe_participants without its unique index: no insert is refused
ParticipantKeyFree(sid, u) == FALSE

\* CREATE UNIQUE INDEX vibe_participants_sessionId_userId_key: an insert of
\* a second row for (sessionId, userId) is refused
ParticipantKeyTaken(sid, u) == FindParticipant(sid, u) # 0

\* the insert with the role left to the column default 'member'
NewMember(sid, u, isCreator) ==
  [sessionId |-> sid, userId |-> u, role |-> "member",
   isActive |-> TRUE, leftAt |-> NoTime]

\* prisma.vibeParticipant.create({ data: { sessionId, userId, role } })
NewParticipant(sid, u, isCreator) ==
  [sessionId |-> sid, userId |-> u,
   role |-> IF isCreator THEN "admin" ELSE "member",
   isActive |-> TRUE, leftAt |-> NoTime]

\* prisma.vibeParticipant.update({ where: { sessionId_userId }, data })
\* with data { isActive: true, joinedAt: new Date(), leftAt: null }
Reactivated(sid, u) ==
  [p \in DOMAIN vibeParticipants |->
     IF vibeParticipants[p].sessionId = sid /\ vibeParticipants[p].userId = u
     THEN [vibeParticipants[p] EXCEPT !.isActive = TRUE, !.leftAt = NoTime]
     ELSE vibeParticipants[p]]

\* the same call with data { leftAt: new Date() } alone
DeactivatedStampOnly(sid, u) ==
  [p \in DOMAIN vibeParticipants |->
     IF vibeParticipants[p].sessionId = sid /\ vibeParticipants[p].userId = u
     THEN [vibeParticipants[p] EXCEPT !.leftAt = now]
     ELSE vibeParticipants[p]]

\* the same call with data { isActive: false, leftAt: new Date() }
Deactivated(sid, u) ==
  [p \in DOMAIN vibeParticipants |->
     IF vibeParticipants[p].sessionId = sid /\ vibeParticipants[p].userId = u
     THEN [vibeParticipants[p] EXCEPT !.isActive = FALSE, !.leftAt = now]
     ELSE vibeParticipants[p]]

(***************************************************************************)
(* POST /  -- create a session                                             *)
(***************************************************************************)
CreateRequest(i, u, name, maxMembers) ==
  /\ Free(i)
  /\ IF name = ""
     THEN /\ req' = [req EXCEPT ![i] = Answered("create", u, 0, NoFields, NoFields, 400)]
          /\ UNCHANGED vibeSessions
     ELSE /\ vibeSessions' = Append(vibeSessions,
               [creatorId |-> u, maxMembers |-> maxMembers, isPublic |-> FALSE,
                allowGuestControl |-> FALSE, queueMode |-> "collaborative",
                isActive |-> TRUE, endedAt |-> NoTime,
                currentSongId |-> Null, currentSongName |-> Null,
                isPlaying |-> FALSE, currentPosition |-> 0, lastUpdated |-> now])
          /\ req' = [req EXCEPT ![i] =
               Answered("create", u, Len(vibeSessions) + 1, NoFields, NoFields, 200)]
  /\ UNCHANGED <<vibeParticipants, vibeQueue, queueSeq, vibeInvitations, now, endOk, audit>>

\* the request while the next id is one of SessionIds
CreateSession(i, u, name, maxMembers) ==
  /\ Len(vibeSessions) + 1 \in SessionIds
  /\ CreateRequest(i, u, name, maxMembers)

\* the request while the next id is one of TwoSessionIds
CreateSessionOfTwo(i, u, name, maxMembers) ==
  /\ Len(vibeSessions) + 1 \in TwoSessionIds
  /\ CreateRequest(i, u, name, maxMembers)

(***************************************************************************)
(* POST /:id/join                                                          *)
(***************************************************************************)
\* the session read with its participant count, and the two early returns
JoinStart(i, u, sid) ==
  /\ Free(i)
  /\ req' = [req EXCEPT ![i] =
       IF ~SessionExists(sid) \/ ~vibeSessions[sid].isActive
       THEN Answered("join", u, sid, NoFields, NoFields, 404)
       ELSE IF JoinCount(sid) >= vibeSessions[sid].maxMembers
       THEN Answered("join", u, sid, NoFields, NoFields, 400)
       ELSE Request("join", "find", u, sid, NoFields,
                    [creatorId |-> vibeSessions[sid].creatorId])]
  /\ UNCHANGED <<store, now, endOk, audit>>

\* existingParticipant = findUnique(sessionId_userId)
JoinFind(i) ==
  /\ Running(i, "join", "find")
  /\ LET p == FindParticipant(req[i].id, req[i].user)
     IN req' = IF p = 0 THEN Goto(i, "create")
               ELSE IF vibeParticipants[p].isActive THEN Respond(i, 400)
               ELSE Goto(i, "reactivate")
  /\ UNCHANGED <<store, now, endOk, audit>>

JoinReactivate(i) ==
  /\ Running(i, "join", "reactivate")
  /\ vibeParticipants' = Reactivated(req[i].id, req[i].user)
  /\ req' = Respond(i, 200)
  /\ UNCHANGED <<vibeSessions, vibeQueue, queueSeq, vibeInvitations, now, endOk, audit>>

\* the insert throws on the unique index and the catch answers 500
JoinCreate(i) ==
  /\ Running(i, "join", "create")
  /\ IF ParticipantKeyTaken(req[i].id, req[i].user)
     THEN /\ req' = Respond(i, 500)
          /\ UNCHANGED vibeParticipants
     ELSE /\ vibeParticipants' = Append(vibeParticipants,
               NewParticipant(req[i].id, req[i].user,
                              req[i].loc.creatorId = req[i].user))
          /\ req' = Respond(i, 200)
  /\ UNCHANGED <<vibeSessions, vibeQueue, queueSeq, vibeInvitations, now, endOk, audit>>

(***************************************************************************)
(* POST /:id/leave                                                         *)
(***************************************************************************)
LeaveStart(i, u, sid) ==
  /\ Free(i)
  /\ LET p == FindParticipant(sid, u)
     IN req' = [req EXCEPT ![i] =
          IF p = 0 \/ ~vibeParticipants[p].isActive
          THEN Answered("leave", u, sid, NoFields, NoFields, 400)
          ELSE Request("leave", "update", u, sid, NoFields, NoFields)]
  /\ UNCHANGED <<store, now, endOk, audit>>

LeaveUpdate(i) ==
  /\ Running(i, "leave", "update")
  /\ vibeParticipants' = Deactivated(req[i].id, req[i].user)
  /\ req' = Respond(i, 200)
  /\ UNCHANGED <<vibeSessions, vibeQueue, queueSeq, vibeInvitations, now, endOk, audit>>

(***************************************************************************)
(* POST /:id/end                                                           *)
(***************************************************************************)
EndStart(i, u, sid) ==
  /\ Free(i)
  /\ req' = [req EXCEPT ![i] =
       IF ~SessionExists(sid) \/ vibeSessions[sid].creatorId # u
       THEN Answered("end", u, sid, NoFields, NoFields, 403)
       ELSE Request("end", "session", u, sid, NoFields, NoFields)]
  /\ UNCHANGED <<store, now, endOk, audit>>

EndSession(i) ==
  /\ Running(i, "end", "session")
  /\ vibeSessions' = [vibeSessions EXCEPT ![req[i].id].isActive = FALSE,
                                          ![req[i].id].endedAt = now]
  /\ req' = Goto(i, "participants")
  /\ UNCHANGED <<vibeParticipants, vibeQueue, queueSeq, vibeInvitations, now, endOk, audit>>

\* updateMany({ where: { sessionId }, data: { isActive: false, leftAt } })
EndParticipants(i) ==
  /\ Running(i, "end", "participants")
  /\ vibeParticipants' =
       [p \in DOMAIN vibeParticipants |->
          IF vibeParticipants[p].sessionId = req[i].id
          THEN [vibeParticipants[p] EXCEPT !.isActive = FALSE, !.leftAt = now]
          ELSE vibeParticipants[p]]
  /\ req' = Respond(i, 200)
  /\ endOk' = endOk \cup {req[i].id}
  /\ UNCHANGED <<vibeSessions, vibeQueue, queueSeq, vibeInvitations, now, audit>>

(***************************************************************************)
(* PUT /:id  -- the creator's settings update                              *)
(***************************************************************************)
\* a field of the request body is given
Has(body, f) == f \in DOMAIN body

UpdateStart(i, u, sid, body) ==
  /\ Free(i)
  /\ req' = [req EXCEPT ![i] =
       IF ~SessionExists(sid) \/ vibeSessions[sid].creatorId # u
       THEN Answered("update", u, sid, body, NoFields, 403)
       ELSE Request("update", "write", u, sid, body, NoFields)]
  /\ UNCHANGED <<store, now, endOk, audit>>

\* data: { ...(maxMembers && { maxMembers }),
\*         ...(allowGuestControl !== undefined && { allowGuestControl }),
\*         ...(queueMode && { queueMode }) }
UpdatedSettings(s, body) ==
  [s EXCEPT
     !.maxMembers = IF Has(body, "maxMembers") /\ body.maxMembers # 0
                    THEN body.maxMembers ELSE @,
     !.allowGuestControl = IF Has(body, "allowGuestControl")
                           THEN body.allowGuestControl ELSE @,
     !.queueMode = IF Has(body, "queueMode") /\ body.queueMode # ""
                   THEN body.queueMode ELSE @]

UpdateWrite(i) ==
  /\ Running(i, "update", "write")
  /\ vibeSessions' = [vibeSessions EXCEPT
                        ![req[i].id] = UpdatedSettings(@, req[i].body)]
  /\ req' = Respond(i, 200)
  /\ UNCHANGED <<vibeParticipants, vibeQueue, queueSeq, vibeInvitations, now, endOk, audit>>

(***************************************************************************)
(* POST /:id/invite                                                        *)
(***************************************************************************)
\* prisma.vibeInvitation.findFirst({ where: { sessionId, invitedUserId,
\* status: 'pending' } }): is there such a row
PendingInvite(sid, u) ==
  \E v \in DOMAIN vibeInvitations :
     /\ vibeInvitations[v].sessionId = sid
     /\ vibeInvitations[v].invitedUserId = u
     /\ vibeInvitations[v].status = "pending"

\* vibe_invitations without its unique index: no write is refused
InvitationKeyFree(sid, u, status, self) == FALSE

\* CREATE UNIQUE INDEX vibe_invitations_sessionId_invitedUserId_status_key:
\* no row other than `self` may hold (sessionId, invitedUserId, status)
InvitationKeyTaken(sid, u, status, self) ==
  \E v \in DOMAIN vibeInvitations :
     /\ v # self
     /\ vibeInvitations[v].sessionId = sid
     /\ vibeInvitations[v].invitedUserId = u
     /\ vibeInvitations[v].status = status

\* the invitations the requests in flight may still insert
RECURSIVE InvitesInFlight(_)
InvitesInFlight(S) ==
  IF S = {} THEN 0
  ELSE LET i == CHOOSE j \in S : TRUE
       IN (IF req[i].op = "invite" /\ req[i].pc # "done"
           THEN Len(req[i].body.userIds) ELSE 0) + InvitesInFlight(S \ {i})

\* the session read, the capacity check, and Promise.all starting one task
\* per target (each task runs to its first store call)
InviteStart(i, u, sid, userIds) ==
  /\ Free(i)
  /\ Len(vibeInvitations) + InvitesInFlight(Slots) + Len(userIds) <= MaxInvitations
  /\ req' = [req EXCEPT ![i] =
       IF ~SessionExists(sid) \/ ~vibeSessions[sid].isActive
       THEN Answered("invite", u, sid, [userIds |-> userIds], NoFields, 404)
       ELSE IF Len(userIds) > vibeSessions[sid].maxMembers - ActiveCount(sid)
       THEN Answered("invite", u, sid, [userIds |-> userIds], NoFields, 400)
       ELSE Request("invite", "tasks", u, sid, [userIds |-> userIds],
                    [task |-> [k \in DOMAIN userIds |-> "participant"],
                     sent |-> {}])]
  /\ UNCHANGED <<store, now, endOk, audit>>

InviteTaskAt(i, k, pc) ==
  /\ Running(i, "invite", "tasks")
  /\ k \in DOMAIN req[i].loc.task
  /\ req[i].loc.task[k] = pc

\* existingParticipant && existingParticipant.isActive => return null
InviteCheckParticipant(i, k) ==
  /\ InviteTaskAt(i, k, "participant")
  /\ LET p == FindParticipant(req[i].id, req[i].body.userIds[k])
     IN req' = [req EXCEPT ![i].loc.task[k] =
                  IF p # 0 /\ vibeParticipants[p].isActive THEN "null" ELSE "invite"]
  /\ UNCHANGED <<store, now, endOk, audit>>

\* existingInvite => return null
InviteCheckPending(i, k) ==
  /\ InviteTaskAt(i, k, "invite")
  /\ req' = [req EXCEPT ![i].loc.task[k] =
               IF PendingInvite(req[i].id, req[i].body.userIds[k])
               THEN "null" ELSE "create"]
  /\ UNCHANGED <<store, now, endOk, audit>>

\* prisma.vibeInvitation.create: a refused insert rejects Promise.all, the
\* catch answers 500 at once and the other tasks go on
InviteCreate(i, k) ==
  /\ InviteTaskAt(i, k, "create")
  /\ IF InvitationKeyTaken(req[i].id, req[i].body.userIds[k], "pending", 0)
     THEN /\ req' = [req EXCEPT ![i].loc.task[k] = "thrown", ![i].code = 500]
          /\ UNCHANGED vibeInvitations
     ELSE /\ vibeInvitations' = Append(vibeInvitations,
               [sessionId |-> req[i].id,
                invitedUserId |-> req[i].body.userIds[k],
                status |-> "pending"])
          /\ req' = [req EXCEPT ![i].loc.task[k] = "created",
                                ![i].loc.sent = @ \cup {Len(vibeInvitations) + 1}]
  /\ UNCHANGED <<vibeSessions, vibeParticipants, vibeQueue, queueSeq, now, endOk, audit>>

\* every task has returned: res.json({ invitations: sentInvitations }),
\* unless the 500 has been sent already
InviteReturn(i) ==
  /\ Running(i, "invite", "tasks")
  /\ \A k \in DOMAIN req[i].loc.task :
        req[i].loc.task[k] \in {"null", "created", "thrown"}
  /\ req' = Respond(i, IF req[i].code = 500 THEN 500 ELSE 200)
  /\ UNCHANGED <<store, now, endOk, audit>>

(***************************************************************************)
(* POST /invitations/:id/accept                                            *)
(***************************************************************************)
\* prisma.vibeInvitation.update({ where: { id }, data: { status } }): the
\* new table, or the old one when the unique index refuses the update
InvitationStatusSet(id, status) ==
  [vibeInvitations EXCEPT ![id].status = status]

InvitationUpdateRefused(id, status) ==
  /\ vibeInvitations[id].status # status
  /\ InvitationKeyTaken(vibeInvitations[id].sessionId,
                        vibeInvitations[id].invitedUserId, status, id)

\* the invitation read with its session and the session's active count
AcceptStart(i, u, id) ==
  /\ Free(i)
  /\ req' = [req EXCEPT ![i] =
       IF id \notin DOMAIN vibeInvitations \/ vibeInvitations[id].invitedUserId # u
       THEN Answered("accept", u, id, NoFields, NoFields, 404)
       ELSE IF vibeInvitations[id].status # "pending"
       THEN Answered("accept", u, id, NoFields, NoFields, 400)
       ELSE LET sid == vibeInvitations[id].sessionId
                loc == [sessionId |-> sid,
                        creatorId |-> vibeSessions[sid].creatorId]
            IN IF ActiveCount(sid) >= vibeSessions[sid].maxMembers
               THEN Request("accept", "expire", u, id, NoFields, loc)
               ELSE Request("accept", "find", u, id, NoFields, loc)]
  /\ UNCHANGED <<store, now, endOk, audit>>

\* status 'expired', then 400 'Session is now full'
AcceptExpire(i) ==
  /\ Running(i, "accept", "expire")
  /\ IF InvitationUpdateRefused(req[i].id, "expired")
     THEN /\ req' = Respond(i, 500)
          /\ UNCHANGED vibeInvitations
     ELSE /\ vibeInvitations' = InvitationStatusSet(req[i].id, "expired")
          /\ req' = Respond(i, 400)
  /\ UNCHANGED <<vibeSessions, vibeParticipants, vibeQueue, queueSeq, now, endOk, audit>>

AcceptFind(i) ==
  /\ Running(i, "accept", "find")
  /\ LET p == FindParticipant(req[i].loc.sessionId, req[i].user)
     IN req' = IF p = 0 THEN Goto(i, "create")
               ELSE IF vibeParticipants[p].isActive THEN Goto(i, "already")
               ELSE Goto(i, "reactivate")
  /\ UNCHANGED <<store, now, endOk, audit>>

AcceptReactivate(i) ==
  /\ Running(i, "accept", "reactivate")
  /\ vibeParticipants' = Reactivated(req[i].loc.sessionId, req[i].user)
  /\ req' = Goto(i, "accepted")
  /\ UNCHANGED <<vibeSessions, vibeQueue, queueSeq, vibeInvitations, now, endOk, audit>>

AcceptCreate(i) ==
  /\ Running(i, "accept", "create")
  /\ IF ParticipantKeyTaken(req[i].loc.sessionId, req[i].user)
     THEN /\ req' = Respond(i, 500)
          /\ UNCHANGED vibeParticipants
     ELSE /\ vibeParticipants' = Append(vibeParticipants,
               NewParticipant(req[i].loc.sessionId, req[i].user,
                              req[i].loc.creatorId = req[i].user))
          /\ req' = Goto(i, "accepted")
  /\ UNCHANGED <<vibeSessions, vibeQueue, queueSeq, vibeInvitations, now, endOk, audit>>

\* status 'accepted', after the participant write or when already joined
AcceptMark(i) ==
  /\ req[i].op = "accept"
  /\ req[i].pc \in {"accepted", "already"}
  /\ IF InvitationUpdateRefused(req[i].id, "accepted")
     THEN /\ req' = Respond(i, 500)
          /\ UNCHANGED vibeInvitations
     ELSE /\ vibeInvitations' = InvitationStatusSet(req[i].id, "accepted")
          /\ req' = Respond(i, 200)
  /\ UNCHANGED <<vibeSessions, vibeParticipants, vibeQueue, queueSeq, now, endOk, audit>>

(***************************************************************************)
(* POST /invitations/:id/decline                                           *)
(***************************************************************************)
\* the invitation read and the ownership check; the status is not looked at
DeclineStart(i, u, id) ==
  /\ Free(i)
  /\ req' = [req EXCEPT ![i] =
       IF id \notin DOMAIN vibeInvitations \/ vibeInvitations[id].invitedUserId # u
       THEN Answered("decline", u, id, NoFields, NoFields, 404)
       ELSE Request("decline", "update", u, id, NoFields, NoFields)]
  /\ UNCHANGED <<store, now, endOk, audit>>

\* status 'declined'
DeclineUpdate(i) ==
  /\ Running(i, "decline", "update")
  /\ IF InvitationUpdateRefused(req[i].id, "declined")
     THEN /\ req' = Respond(i, 500)
          /\ UNCHANGED vibeInvitations
     ELSE /\ vibeInvitations' = InvitationStatusSet(req[i].id, "declined")
          /\ req' = Respond(i, 200)
  /\ UNCHANGED <<vibeSessions, vibeParticipants, vibeQueue, queueSeq, now, endOk, audit>>

(***************************************************************************)
(* Permission checks of the playback routes                                *)
(***************************************************************************)
\* include: { participants: { where: { userId, isActive: true } } } and
\* participant = session.participants[0]: the id of the row, 0 for undefined
ActiveParticipant(sid, u) ==
  LET found == {p \in ParticipantsOf(sid) :
                  vibeParticipants[p].userId = u /\ vibeParticipants[p].isActive}
  IN IF found = {} THEN 0 ELSE CHOOSE p \in found : \A q \in found : p <= q

\* canControl without the participant test of the guest-control disjunct
canControlAnyGuest(sid, u) ==
  LET session == vibeSessions[sid]
      participant == ActiveParticipant(sid, u)
  IN \/ session.creatorId = u
     \/ session.allowGuestControl
     \/ (participant # 0 /\ vibeParticipants[participant].role = "admin")

\* canControl of PUT /:id/current-song and of PUT /:id/playback
canControl(sid, u) ==
  LET session == vibeSessions[sid]
      participant == ActiveParticipant(sid, u)
  IN \/ session.creatorId = u
     \/ (session.allowGuestControl /\ participant # 0)
     \/ (participant # 0 /\ vibeParticipants[participant].role = "admin")

\* POST /:id/next goes on unless (!isCreator && !isAdmin && !allowGuestControl)
nextPermitted(sid, u) ==
  LET session == vibeSessions[sid]
      isCreator == session.creatorId = u
      participant == ActiveParticipant(sid, u)
      isAdmin == participant # 0 /\ vibeParticipants[participant].role = "admin"
  IN ~(~isCreator /\ ~isAdmin /\ ~session.allowGuestControl)

(***************************************************************************)
(* PUT /:id/current-song                                                   *)
(***************************************************************************)
SetCurrentStart(i, u, sid, body) ==
  /\ Free(i)
  /\ req' = [req EXCEPT ![i] =
       IF ~SessionExists(sid) THEN Answered("setCurrent", u, sid, body, NoFields, 404)
       ELSE IF ~canControl(sid, u) THEN Answered("setCurrent", u, sid, body, NoFields, 403)
       ELSE Request("setCurrent", "write", u, sid, body, NoFields)]
  /\ UNCHANGED <<store, now, endOk, audit>>

\* data: { currentSongId: songId, currentSongName: songName, ...,
\*         isPlaying, currentPosition: position, lastUpdated: new Date() }
\* with the defaults isPlaying = true and position = 0; prisma leaves a
\* column alone whose value is undefined
CurrentSongSet(s, body) ==
  [s EXCEPT
     !.currentSongId = IF Has(body, "songId") THEN body.songId ELSE @,
     !.currentSongName = IF Has(body, "songName") THEN body.songName ELSE @,
     !.isPlaying = IF Has(body, "isPlaying") THEN body.isPlaying ELSE TRUE,
     !.currentPosition = IF Has(body, "position") THEN body.position ELSE 0,
     !.lastUpdated = now]

SetCurrentWrite(i) ==
  /\ Running(i, "setCurrent", "write")
  /\ vibeSessions' = [vibeSessions EXCEPT
                        ![req[i].id] = CurrentSongSet(@, req[i].body)]
  /\ req' = IF Has(req[i].body, "songId") /\ req[i].body.songId # ""
            THEN Goto(i, "queue") ELSE Respond(i, 200)
  /\ UNCHANGED <<vibeParticipants, vibeQueue, queueSeq, vibeInvitations, now, endOk, audit>>

\* updateMany({ where: { sessionId, songId, played: false },
\*              data: { played: true } })
SetCurrentQueue(i) ==
  /\ Running(i, "setCurrent", "queue")
  /\ vibeQueue' = {IF q.sessionId = req[i].id /\ q.songId = req[i].body.songId
                   THEN [q EXCEPT !.played = TRUE] ELSE q : q \in vibeQueue}
  /\ req' = Respond(i, 200)
  /\ UNCHANGED <<vibeSessions, vibeParticipants, queueSeq, vibeInvitations, now, endOk, audit>>

(***************************************************************************)
(* PUT /:id/playback                                                       *)
(***************************************************************************)
SetPlaybackStart(i, u, sid, body) ==
  /\ Free(i)
  /\ req' = [req EXCEPT ![i] =
       IF ~SessionExists(sid) THEN Answered("setPlayback", u, sid, body, NoFields, 404)
       ELSE IF ~canControl(sid, u) THEN Answered("setPlayback", u, sid, body, NoFields, 403)
       ELSE Request("setPlayback", "write", u, sid, body, NoFields)]
  /\ UNCHANGED <<store, now, endOk, audit>>

\* data: { ...(isPlaying !== undefined && { isPlaying }),
\*         ...(position !== undefined && { currentPosition: position }),
\*         lastUpdated: new Date() }
PlaybackSet(s, body) ==
  [s EXCEPT
     !.isPlaying = IF Has(body, "isPlaying") THEN body.isPlaying ELSE @,
     !.currentPosition = IF Has(body, "position") THEN body.position ELSE @,
     !.lastUpdated = now]

SetPlaybackWrite(i) ==
  /\ Running(i, "setPlayback", "write")
  /\ vibeSessions' = [vibeSessions EXCEPT
                        ![req[i].id] = PlaybackSet(@, req[i].body)]
  /\ req' = Respond(i, 200)
  /\ UNCHANGED <<vibeParticipants, vibeQueue, queueSeq, vibeInvitations, now, endOk, audit>>

(***************************************************************************)
(* POST /:id/queue                                                         *)
(***************************************************************************)
\* the rows of vibe_queue a where-clause on sessionId selects
QueueOf(sid) == {q \in vibeQueue : q.sessionId = sid}

\* lastQueueItem = findFirst({ where: { sessionId }, orderBy: { position:
\* 'desc' } }); position = (lastQueueItem?.position || 0) + 1
NextPosition(sid) ==
  IF QueueOf(sid) = {} THEN 1
  ELSE (CHOOSE n \in {q.position : q \in QueueOf(sid)} :
          \A q \in QueueOf(sid) : q.position <= n) + 1

\* the rows the requests in flight may still insert
EnqueuesInFlight ==
  Cardinality({i \in Slots : req[i].op = "enqueue" /\ req[i].pc # "done"})

\* the body check and the first session read
EnqueueRequest(i, u, sid, body) ==
  /\ Free(i)
  /\ req' = [req EXCEPT ![i] =
       IF ~Has(body, "songId") \/ ~Has(body, "songName")
       THEN Answered("enqueue", u, sid, body, NoFields, 400)
       ELSE IF ~SessionExists(sid)
       THEN Answered("enqueue", u, sid, body, NoFields, 404)
       ELSE Request("enqueue", "participant", u, sid, body,
                    [creatorId |-> vibeSessions[sid].creatorId, position |-> 0])]
  /\ UNCHANGED <<store, now, endOk, audit>>

\* the request while the queue has had fewer than MaxQueue inserts
EnqueueStart(i, u, sid, body) ==
  /\ queueSeq + EnqueuesInFlight < MaxQueue
  /\ EnqueueRequest(i, u, sid, body)

\* the request while the queue has had fewer than MaxLongQueue inserts
EnqueueStartLong(i, u, sid, body) ==
  /\ queueSeq + EnqueuesInFlight < MaxLongQueue
  /\ EnqueueRequest(i, u, sid, body)

\* a non-creator needs an active participant row
isMember(creatorId, sid, u) ==
  LET participant == FindParticipant(sid, u)
  IN ~(creatorId # u /\ (participant = 0 \/ ~vibeParticipants[participant].isActive))

EnqueueParticipant(i) ==
  /\ Running(i, "enqueue", "participant")
  /\ req' = IF isMember(req[i].loc.creatorId, req[i].id, req[i].user)
            THEN Goto(i, "mode") ELSE Respond(i, 403)
  /\ UNCHANGED <<store, now, endOk, audit>>

\* the queue-mode test without the exception for the creator
hostOnlyDeniesAll(sid, u) == vibeSessions[sid].queueMode = "host-only"

\* session.queueMode === 'host-only' && session.creatorId !== userId
hostOnlyDenies(sid, u) ==
  vibeSessions[sid].queueMode = "host-only" /\ vibeSessions[sid].creatorId # u

EnqueueMode(i) ==
  /\ Running(i, "enqueue", "mode")
  /\ req' = IF hostOnlyDenies(req[i].id, req[i].user)
            THEN Respond(i, 403) ELSE Goto(i, "last")
  /\ UNCHANGED <<store, now, endOk, audit>>

EnqueueLast(i) ==
  /\ Running(i, "enqueue", "last")
  /\ req' = [req EXCEPT ![i].pc = "create",
                        ![i].loc.position = NextPosition(req[i].id)]
  /\ UNCHANGED <<store, now, endOk, audit>>

EnqueueCreate(i) ==
  /\ Running(i, "enqueue", "create")
  /\ queueSeq' = queueSeq + 1
  /\ vibeQueue' = vibeQueue \cup
       {[id |-> queueSeq + 1, sessionId |-> req[i].id,
         songId |-> req[i].body.songId, songName |-> req[i].body.songName,
         addedBy |-> req[i].user, position |-> req[i].loc.position,
         played |-> FALSE]}
  /\ req' = Respond(i, 200)
  /\ UNCHANGED <<vibeSessions, vibeParticipants, vibeInvitations, now, endOk, audit>>

(***************************************************************************)
(* POST /:id/next  -- advance                                              *)
(***************************************************************************)
Unplayed(sid) == {q \in QueueOf(sid) : ~q.played}

\* orderBy: { position: 'desc' } in place of 'asc'
LastUnplayed(sid) ==
  {q \in Unplayed(sid) : \A r \in Unplayed(sid) : q.position >= r.position}

\* findFirst({ where: { sessionId, played: false }, orderBy: { position:
\* 'asc' } }): the rows the store may return (any of those that tie)
FirstUnplayed(sid) ==
  {q \in Unplayed(sid) : \A r \in Unplayed(sid) : q.position <= r.position}

NextStart(i, u, sid) ==
  /\ Free(i)
  /\ req' = [req EXCEPT ![i] =
       IF ~SessionExists(sid) THEN Answered("next", u, sid, NoFields, NoFields, 404)
       ELSE IF ~nextPermitted(sid, u) THEN Answered("next", u, sid, NoFields, NoFields, 403)
       ELSE Request("next", "find", u, sid, NoFields, NoFields)]
  /\ UNCHANGED <<store, now, endOk, audit>>

NextFind(i) ==
  /\ Running(i, "next", "find")
  /\ IF FirstUnplayed(req[i].id) = {}
     THEN req' = Goto(i, "clear")
     ELSE \E nextSong \in FirstUnplayed(req[i].id) :
            req' = [req EXCEPT ![i].pc = "set", ![i].loc = [nextSong |-> nextSong]]
  /\ UNCHANGED <<store, now, endOk, audit>>

\* Queue empty - stop playback (currentPosition and lastUpdated stay)
NextClear(i) ==
  /\ Running(i, "next", "clear")
  /\ vibeSessions' = [vibeSessions EXCEPT
                        ![req[i].id].isPlaying = FALSE,
                        ![req[i].id].currentSongId = Null,
                        ![req[i].id].currentSongName = Null]
  /\ req' = Respond(i, 200)
  /\ UNCHANGED <<vibeParticipants, vibeQueue, queueSeq, vibeInvitations, now, endOk, audit>>

NextSet(i) ==
  /\ Running(i, "next", "set")
  /\ vibeSessions' = [vibeSessions EXCEPT
                        ![req[i].id].currentSongId = req[i].loc.nextSong.songId,
                        ![req[i].id].currentSongName = req[i].loc.nextSong.songName,
                        ![req[i].id].isPlaying = TRUE,
                        ![req[i].id].currentPosition = 0,
                        ![req[i].id].lastUpdated = now]
  /\ req' = Goto(i, "mark")
  /\ UNCHANGED <<vibeParticipants, vibeQueue, queueSeq, vibeInvitations, now, endOk, audit>>

\* /next without its last store call: the response alone
NextMarkNothing(i) ==
  /\ Running(i, "next", "mark")
  /\ req' = Respond(i, 200)
  /\ UNCHANGED <<store, now, endOk, audit>>

\* vibeQueue.update({ where: { id: nextSong.id }, data: { played: true } })
\* throws when the row has been deleted
NextMark(i) ==
  /\ Running(i, "next", "mark")
  /\ IF \E q \in vibeQueue : q.id = req[i].loc.nextSong.id
     THEN /\ vibeQueue' = {IF q.id = req[i].loc.nextSong.id
                           THEN [q EXCEPT !.played = TRUE] ELSE q : q \in vibeQueue}
          /\ req' = Respond(i, 200)
     ELSE /\ req' = Respond(i, 500)
          /\ UNCHANGED vibeQueue
  /\ UNCHANGED <<vibeSessions, vibeParticipants, queueSeq, vibeInvitations, now, endOk, audit>>

(***************************************************************************)
(* DELETE /:id/queue/:queueId                                              *)
(***************************************************************************)
RemoveStart(i, u, sid, queueId) ==
  /\ Free(i)
  /\ req' = [req EXCEPT ![i] =
       Request("remove", "item", u, sid, [queueId |-> queueId],
               [creatorId |-> IF SessionExists(sid)
                              THEN vibeSessions[sid].creatorId ELSE 0])]
  /\ UNCHANGED <<store, now, endOk, audit>>

\* queueItem = findUnique({ where: { id: queueId } }); the 404 for a missing
\* session or item; canRemove = creator of the session or addedBy
RemoveItem(i) ==
  /\ Running(i, "remove", "item")
  /\ LET found == {q \in vibeQueue : q.id = req[i].body.queueId}
     IN req' = IF req[i].loc.creatorId = 0 \/ found = {} THEN Respond(i, 404)
               ELSE IF \/ req[i].loc.creatorId = req[i].user
                       \/ \E q \in found : q.addedBy = req[i].user
               THEN Goto(i, "delete")
               ELSE Respond(i, 403)
  /\ UNCHANGED <<store, now, endOk, audit>>

\* vibeQueue.delete({ where: { id: queueId } }) throws when the row is gone
RemoveDelete(i) ==
  /\ Running(i, "remove", "delete")
  /\ IF \E q \in vibeQueue : q.id = req[i].body.queueId
     THEN /\ vibeQueue' = {q \in vibeQueue : q.id # req[i].body.queueId}
          /\ req' = Respond(i, 200)
     ELSE /\ req' = Respond(i, 500)
          /\ UNCHANGED vibeQueue
  /\ UNCHANGED <<vibeSessions, vibeParticipants, queueSeq, vibeInvitations, now, endOk, audit>>

(***************************************************************************)
(* GET /:id  -- the session with its active participants and unplayed      *)
(* queue                                                                   *)
(***************************************************************************)
\* hasAccess = isPublic || creator || one of the active participants
hasAccess(sid, u) ==
  \/ vibeSessions[sid].isPublic
  \/ vibeSessions[sid].creatorId = u
  \/ ActiveParticipant(sid, u) # 0

\* one findUnique with include: the store answers it from one state of the
\* tables; the response carries what it has read
GetSession(i, u, sid) ==
  /\ Free(i)
  /\ req' = [req EXCEPT ![i] =
       IF ~SessionExists(sid) THEN Answered("get", u, sid, NoFields, NoFields, 404)
       ELSE IF ~hasAccess(sid, u) THEN Answered("get", u, sid, NoFields, NoFields, 403)
       ELSE Answered("get", u, sid, NoFields,
                     [session |-> vibeSessions[sid],
                      participants |-> {vibeParticipants[p].userId :
                                          p \in {q \in ParticipantsOf(sid) :
                                                   vibeParticipants[q].isActive}},
                      queue |-> Unplayed(sid)], 200)]
  /\ UNCHANGED <<store, now, endOk, audit>>

(***************************************************************************)
(* The socket handlers of index.js: io.on('connection')                    *)
(***************************************************************************)
\* the event a handler emits to the room vibe-<sessionId> of its data
Emitted(event) ==
  CASE event = "vibe:join" -> "vibe:participant_joined"
    [] event = "vibe:leave" -> "vibe:participant_left"
    [] event = "vibe:play_song" -> "vibe:song_changed"
    [] event = "vibe:toggle_play_pause" -> "vibe:play_pause"
    [] event = "vibe:seek_to" -> "vibe:seek"
    [] event = "vibe:add_to_queue" -> "vibe:queue_updated"
    [] event = "vibe:end_session" -> "vibe:session_ended"

\* socket.on(event, (data) => ... emit ...): the handler reads its data,
\* calls no table of the session store and emits; the slot shows the
\* broadcast (room = id, payload = body)
SocketOn(i, event, sid, data) ==
  /\ Free(i)
  /\ req' = [req EXCEPT ![i] =
       Answered(event, 0, sid, data, [emit |-> Emitted(event)], 0)]
  /\ UNCHANGED <<store, now, endOk, audit>>

(***************************************************************************)
(* Membership: join, leave, end, settings, invite and accept, two          *)
(* requests in flight                                                      *)
(***************************************************************************)
Capacities == {1, 2}

NextMember ==
  \/ \E i \in Slots :
       \/ \E name \in {"", "vibe"}, m \in Capacities : CreateSession(i, 1, name, m)
       \/ \E u \in Users, sid \in SessionIds :
            \/ JoinStart(i, u, sid)
            \/ LeaveStart(i, u, sid)
            \/ EndStart(i, u, sid)
       \/ \E sid \in SessionIds, m \in Capacities :
            UpdateStart(i, 1, sid, [maxMembers |-> m])
       \/ \E u \in Users, sid \in SessionIds : InviteStart(i, 1, sid, <<u>>)
       \/ \E u \in Users, id \in 1..MaxInvitations : AcceptStart(i, u, id)
       \/ JoinFind(i) \/ JoinReactivate(i) \/ JoinCreate(i)
       \/ LeaveUpdate(i)
       \/ EndSession(i) \/ EndParticipants(i)
       \/ UpdateWrite(i)
       \/ \E k \in 1..2 : InviteCheckParticipant(i, k)
       \/ \E k \in 1..2 : InviteCheckPending(i, k)
       \/ \E k \in 1..2 : InviteCreate(i, k)
       \/ InviteReturn(i)
       \/ AcceptExpire(i) \/ AcceptFind(i) \/ AcceptReactivate(i)
       \/ AcceptCreate(i) \/ AcceptMark(i)

SpecMember == Init /\ [][NextMember]_vars

(***************************************************************************)
(* Participant rows: join, leave, invite and accept, two requests in       *)
(* flight                                                                  *)
(***************************************************************************)
NextRows ==
  \E i \in Slots :
     \/ \E m \in Capacities : CreateSession(i, 1, "vibe", m)
     \/ \E u \in Users, sid \in SessionIds :
          \/ JoinStart(i, u, sid)
          \/ LeaveStart(i, u, sid)
     \/ \E u \in Users, sid \in SessionIds : InviteStart(i, 1, sid, <<u>>)
     \/ \E u \in Users, id \in 1..MaxInvitations : AcceptStart(i, u, id)
     \/ JoinFind(i) \/ JoinReactivate(i) \/ JoinCreate(i)
     \/ LeaveUpdate(i)
     \/ \E k \in 1..2 : InviteCheckParticipant(i, k)
     \/ \E k \in 1..2 : InviteCheckPending(i, k)
     \/ \E k \in 1..2 : InviteCreate(i, k)
     \/ InviteReturn(i)
     \/ AcceptExpire(i) \/ AcceptFind(i) \/ AcceptReactivate(i)
     \/ AcceptCreate(i) \/ AcceptMark(i)

SpecRows == Init /\ [][NextRows]_vars

\* C1: in every reachable state the number of active participant rows of a
\* session is at most the session's maxMembers.
ActiveWithinCapacity ==
  \A sid \in DOMAIN vibeSessions :
     ActiveCount(sid) <= vibeSessions[sid].maxMembers

\* C2: once end has answered 200 for a session, every participant row of
\* that session is inactive in every later state.
EndedStaysInactive ==
  \A sid \in endOk :
     \A p \in ParticipantsOf(sid) : ~vibeParticipants[p].isActive

\* at most one participant row per (session, user)
OneRowPerPair ==
  \A p, q \in DOMAIN vibeParticipants :
     (/\ vibeParticipants[p].sessionId = vibeParticipants[q].sessionId
      /\ vibeParticipants[p].userId = vibeParticipants[q].userId) => p = q

\* C8: at most one participant row exists per (session, user) after every
\* step, also of concurrent joins and accepts of one user; rows are never
\* dropped or re-keyed, and a rejoin adds no row: it turns the user's row
\* active and clears leftAt.
ParticipantRowReused ==
  [][/\ OneRowPerPair'
     /\ Len(vibeParticipants') >= Len(vibeParticipants)
     /\ \A p \in DOMAIN vibeParticipants :
           /\ vibeParticipants'[p].sessionId = vibeParticipants[p].sessionId
           /\ vibeParticipants'[p].userId = vibeParticipants[p].userId
     /\ \A i \in Slots :
           (req[i].pc = "reactivate" /\ req'[i] # req[i]) =>
             /\ Len(vibeParticipants') = Len(vibeParticipants)
             /\ LET p == FindParticipant(IF req[i].op = "join" THEN req[i].id
                                         ELSE req[i].loc.sessionId, req[i].user)
                IN /\ p # 0
                   /\ vibeParticipants'[p].isActive
                   /\ vibeParticipants'[p].leftAt = NoTime]_vars

\* a join or accept is about to insert the row of a user whose row another
\* request has inserted in the meantime
InsertRaceLost ==
  \E i \in Slots :
     /\ req[i].op \in {"join", "accept"}
     /\ req[i].pc = "create"
     /\ FindParticipant(IF req[i].op = "join" THEN req[i].id
                         ELSE req[i].loc.sessionId, req[i].user) # 0


(***************************************************************************)
(* The capabilities as the design states them                              *)
(***************************************************************************)
ActiveRows(sid, u) ==
  {p \in DOMAIN vibeParticipants :
     /\ vibeParticipants[p].sessionId = sid
     /\ vibeParticipants[p].userId = u
     /\ vibeParticipants[p].isActive}

IsCreator(sid, u) == vibeSessions[sid].creatorId = u

\* can_control_playback
CanControlPlayback(sid, u) ==
  \/ IsCreator(sid, u)
  \/ \E p \in ActiveRows(sid, u) : vibeParticipants[p].role = "admin"
  \/ (vibeSessions[sid].allowGuestControl /\ ActiveRows(sid, u) # {})

\* can_mutate_queue
CanMutateQueue(sid, u) ==
  \/ IsCreator(sid, u)
  \/ (vibeSessions[sid].queueMode = "collaborative" /\ ActiveRows(sid, u) # {})

\* slot i holds the response to a request `op`
Returned(i, op) == req[i].op = op /\ req[i].pc = "done"

(***************************************************************************)
(* Playback control, one request at a time, the responses kept             *)
(***************************************************************************)
Tracks == {[songId |-> "s1", songName |-> "n1"], [songId |-> "s2", songName |-> "n2"]}

PlaybackBodies == [isPlaying : BOOLEAN] \cup [position : {7}]

NextPlay ==
  \/ Tick
  \/ \E i \in {1} :
       \/ \E name \in {"", "vibe"} : CreateSession(i, 1, name, 2)
       \/ \E u \in Users, sid \in SessionIds :
            \/ JoinStart(i, u, sid)
            \/ LeaveStart(i, u, sid)
            \/ EndStart(i, u, sid)
            \/ \E body \in [allowGuestControl : BOOLEAN] : UpdateStart(i, u, sid, body)
            \/ SetCurrentStart(i, u, sid, [songId |-> "s1", songName |-> "n1"])
            \/ \E body \in PlaybackBodies : SetPlaybackStart(i, u, sid, body)
       \/ JoinFind(i) \/ JoinReactivate(i) \/ JoinCreate(i)
       \/ LeaveUpdate(i)
       \/ EndSession(i) \/ EndParticipants(i)
       \/ UpdateWrite(i)
       \/ SetCurrentWrite(i) \/ SetCurrentQueue(i)
       \/ SetPlaybackWrite(i)

SpecPlay == InitAudit /\ [][NextPlay]_vars

\* C3: after end has answered 200 for a session, no setPlayback on that
\* session is answered 200 (each is rejected and writes nothing).
PlaybackRejectedAfterEnd ==
  \A i \in Slots :
     (Returned(i, "setPlayback") /\ req[i].id \in endOk) => req[i].code # 200

\* C5: setCurrent and setPlayback on an existing session answer 200 exactly
\* when the actor is the creator, an active admin, or an active participant
\* of a session with allowGuestControl; otherwise they answer 403.
ControlIffPermitted ==
  \A i \in Slots :
     ((Returned(i, "setCurrent") \/ Returned(i, "setPlayback"))
        /\ SessionExists(req[i].id)) =>
       /\ req[i].code = 200 <=> CanControlPlayback(req[i].id, req[i].user)
       /\ req[i].code # 200 => req[i].code = 403

\* a non-admin member's setPlayback has answered 200 under guest control,
\* which only the creator's settings update can have turned on
GuestControlsPlayback ==
  \E i \in Slots :
     /\ Returned(i, "setPlayback")
     /\ req[i].code = 200
     /\ SessionExists(req[i].id)
     /\ ~IsCreator(req[i].id, req[i].user)
     /\ vibeSessions[req[i].id].allowGuestControl
     /\ \E p \in ActiveRows(req[i].id, req[i].user) :
          vibeParticipants[p].role = "member"

(***************************************************************************)
(* The queue, one request at a time, the responses kept                    *)
(***************************************************************************)
SettingsBodies ==
  [allowGuestControl : BOOLEAN] \cup [queueMode : {"collaborative", "host-only"}]

NextQueue ==
  \E i \in {1} :
     \/ \E name \in {"", "vibe"} : CreateSession(i, 1, name, 2)
     \/ \E u \in Users, sid \in SessionIds :
          \/ JoinStart(i, u, sid)
          \/ LeaveStart(i, u, sid)
          \/ \E body \in SettingsBodies : UpdateStart(i, u, sid, body)
          \/ SetCurrentStart(i, u, sid, [songId |-> "s1", songName |-> "n1"])
          \/ SetPlaybackStart(i, u, sid, [isPlaying |-> FALSE])
          \/ \E body \in Tracks \cup {[songName |-> "n1"]} :
               EnqueueStart(i, u, sid, body)
          \/ NextStart(i, u, sid)
          \/ \E queueId \in 1..MaxQueue : RemoveStart(i, u, sid, queueId)
     \/ JoinFind(i) \/ JoinReactivate(i) \/ JoinCreate(i)
     \/ LeaveUpdate(i)
     \/ UpdateWrite(i)
     \/ SetCurrentWrite(i) \/ SetCurrentQueue(i)
     \/ SetPlaybackWrite(i)
     \/ EnqueueParticipant(i) \/ EnqueueMode(i) \/ EnqueueLast(i) \/ EnqueueCreate(i)
     \/ NextFind(i) \/ NextClear(i) \/ NextSet(i) \/ NextMark(i)
     \/ RemoveItem(i) \/ RemoveDelete(i)

SpecQueue == InitAudit /\ [][NextQueue]_vars

\* C4: an actor who is neither the session's creator nor an active
\* participant of it gets no 200 from setCurrent, setPlayback, advance,
\* enqueue or remove.
FailsClosed ==
  \A i \in Slots :
     (/\ req[i].op \in {"setCurrent", "setPlayback", "next", "enqueue", "remove"}
      /\ req[i].pc = "done"
      /\ req[i].code = 200) =>
       (IsCreator(req[i].id, req[i].user) \/ ActiveRows(req[i].id, req[i].user) # {})

\* C6: advance is permitted exactly when setPlayback by the same actor in
\* the same state is.
AdvanceAsPlayback ==
  \A i \in Slots :
     (Returned(i, "next") /\ SessionExists(req[i].id)) =>
       (req[i].code # 403 <=> canControl(req[i].id, req[i].user))

(***************************************************************************)
(* Enqueue and its permission, one request at a time, the responses kept   *)
(***************************************************************************)
NextEnqueue ==
  \E i \in {1} :
     \/ CreateSession(i, 1, "vibe", 2)
     \/ \E u \in Users, sid \in SessionIds :
          \/ JoinStart(i, u, sid)
          \/ LeaveStart(i, u, sid)
          \/ \E body \in [queueMode : {"collaborative", "host-only"}] :
               UpdateStart(i, u, sid, body)
          \/ \E body \in {[songId |-> "s1", songName |-> "n1"], [songName |-> "n1"]} :
               EnqueueStart(i, u, sid, body)
     \/ JoinFind(i) \/ JoinReactivate(i) \/ JoinCreate(i)
     \/ LeaveUpdate(i)
     \/ UpdateWrite(i)
     \/ EnqueueParticipant(i) \/ EnqueueMode(i) \/ EnqueueLast(i) \/ EnqueueCreate(i)

SpecEnqueue == InitAudit /\ [][NextEnqueue]_vars

\* C7: an enqueue with song details on an existing session answers 200
\* exactly when the actor is the creator, or the queue mode is collaborative
\* and the actor has an active participant row; otherwise it answers 403.
\* Only the step that answers 200 changes the queue, and it adds one row.
EnqueueIffPermitted ==
  [][\A i \in {1} :
       /\ (/\ req'[i].op = "enqueue"
           /\ req'[i].pc = "done"
           /\ req'[i] # req[i]
           /\ Has(req'[i].body, "songId")
           /\ SessionExists(req'[i].id)) =>
            /\ req'[i].code = 200 <=> CanMutateQueue(req'[i].id, req'[i].user)
            /\ req'[i].code # 200 => req'[i].code = 403
       /\ vibeQueue' # vibeQueue =>
            /\ req'[i].op = "enqueue" /\ req'[i].pc = "done" /\ req'[i].code = 200
            /\ \E q \in vibeQueue' \ vibeQueue :
                 /\ vibeQueue' = vibeQueue \cup {q}
                 /\ q.sessionId = req'[i].id
                 /\ q.songId = req'[i].body.songId
                 /\ q.addedBy = req'[i].user]_vars

\* the creator, who has no participant row, has enqueued in host-only mode
HostEnqueuesUnjoined ==
  \E i \in Slots :
     /\ Returned(i, "enqueue")
     /\ req[i].code = 200
     /\ IsCreator(req[i].id, req[i].user)
     /\ vibeSessions[req[i].id].queueMode = "host-only"
     /\ FindParticipant(req[i].id, req[i].user) = 0

(***************************************************************************)
(* Advance over the queue, one request at a time, the responses kept       *)
(***************************************************************************)
NextAdvance ==
  \E i \in {1} :
     \/ CreateSession(i, 1, "vibe", 2)
     \/ \E u \in Users, sid \in SessionIds :
          \/ \E body \in Tracks : EnqueueStart(i, u, sid, body)
          \/ NextStart(i, u, sid)
          \/ \E queueId \in 1..MaxQueue : RemoveStart(i, u, sid, queueId)
          \/ SetCurrentStart(i, u, sid, [songId |-> "s1", songName |-> "n1"])
     \/ EnqueueParticipant(i) \/ EnqueueMode(i) \/ EnqueueLast(i) \/ EnqueueCreate(i)
     \/ NextFind(i) \/ NextClear(i) \/ NextSet(i) \/ NextMark(i)
     \/ RemoveItem(i) \/ RemoveDelete(i)
     \/ SetCurrentWrite(i) \/ SetCurrentQueue(i)

SpecAdvance == InitAudit /\ [][NextAdvance]_vars

\* C10: the step that ends an authorized advance leaves, when the session
\* had unplayed items, the track of an unplayed item of minimum position
\* current (playing, position 0) and exactly that item marked played; when
\* it had none, the current-track fields null and isPlaying false.
AdvanceTakesFirst ==
  [][\A i \in {1} :
       (/\ req'[i].op = "next"
        /\ req'[i].pc = "done"
        /\ req'[i] # req[i]
        /\ req'[i].code # 403
        /\ SessionExists(req'[i].id)) =>
         LET sid == req'[i].id
             session == vibeSessions'[sid]
         IN /\ req'[i].code = 200
            /\ IF Unplayed(sid) = {}
               THEN /\ session.currentSongId = Null
                    /\ session.currentSongName = Null
                    /\ ~session.isPlaying
                    /\ vibeQueue' = vibeQueue
               ELSE \E q \in Unplayed(sid) :
                      /\ \A r \in Unplayed(sid) : q.position <= r.position
                      /\ vibeQueue' = (vibeQueue \ {q}) \cup {[q EXCEPT !.played = TRUE]}
                      /\ session.currentSongId = q.songId
                      /\ session.currentSongName = q.songName
                      /\ session.isPlaying
                      /\ session.currentPosition = 0]_vars

\* an advance has answered 200 after taking one of several unplayed items
AdvancedPastOthers ==
  \E i \in Slots :
     /\ Returned(i, "next")
     /\ req[i].code = 200
     /\ Has(req[i].loc, "nextSong")
     /\ \E r \in Unplayed(req[i].id) : r.songId # req[i].loc.nextSong.songId

(***************************************************************************)
(* The queue with two requests in flight                                   *)
(***************************************************************************)
NextQueueRace ==
  \E i \in Slots :
     \/ CreateSession(i, 1, "vibe", 2)
     \/ \E sid \in SessionIds :
          \/ \E body \in Tracks : EnqueueStart(i, 1, sid, body)
          \/ NextStart(i, 1, sid)
          \/ \E queueId \in 1..MaxQueue : RemoveStart(i, 1, sid, queueId)
          \/ SetCurrentStart(i, 1, sid, [songId |-> "s1", songName |-> "n1"])
     \/ EnqueueParticipant(i) \/ EnqueueMode(i) \/ EnqueueLast(i) \/ EnqueueCreate(i)
     \/ NextFind(i) \/ NextClear(i) \/ NextSet(i) \/ NextMark(i)
     \/ RemoveItem(i) \/ RemoveDelete(i)
     \/ SetCurrentWrite(i) \/ SetCurrentQueue(i)

SpecQueueRace == Init /\ [][NextQueueRace]_vars

\* C9: in every reachable state no two unplayed queue items of a session
\* have the same position.
UnplayedPositionsDistinct ==
  \A q, r \in vibeQueue :
     (q.sessionId = r.sessionId /\ ~q.played /\ ~r.played /\ q.position = r.position)
       => q = r

(***************************************************************************)
(* Invitations with two requests in flight: batches of one or two targets, *)
(* the same target twice included                                          *)
(***************************************************************************)
Batches == {<<2>>, <<2, 2>>, <<1, 2>>}

NextInvite ==
  \E i \in Slots :
     \/ \E m \in Capacities : CreateSession(i, 1, "vibe", m)
     \/ \E sid \in SessionIds, userIds \in Batches : InviteStart(i, 1, sid, userIds)
     \/ \E id \in 1..MaxInvitations : AcceptStart(i, 2, id)
     \/ \E id \in 1..MaxInvitations : DeclineStart(i, 2, id)
     \/ \E sid \in SessionIds : JoinStart(i, 1, sid)
     \/ \E u \in Users, sid \in SessionIds : LeaveStart(i, u, sid)
     \/ JoinFind(i) \/ JoinReactivate(i) \/ JoinCreate(i)
     \/ LeaveUpdate(i)
     \/ \E k \in 1..2 : InviteCheckParticipant(i, k)
     \/ \E k \in 1..2 : InviteCheckPending(i, k)
     \/ \E k \in 1..2 : InviteCreate(i, k)
     \/ InviteReturn(i)
     \/ AcceptExpire(i) \/ AcceptFind(i) \/ AcceptReactivate(i)
     \/ AcceptCreate(i) \/ AcceptMark(i)
     \/ DeclineUpdate(i)

SpecInvite == Init /\ [][NextInvite]_vars

\* C11: in every reachable state at most one invitation with status pending
\* exists per (session, invited user), also when one batch names a user
\* twice or two invite requests for one target run concurrently.
OnePendingPerTarget ==
  \A v, w \in DOMAIN vibeInvitations :
     (/\ vibeInvitations[v].sessionId = vibeInvitations[w].sessionId
      /\ vibeInvitations[v].invitedUserId = vibeInvitations[w].invitedUserId
      /\ vibeInvitations[v].status = "pending"
      /\ vibeInvitations[w].status = "pending") => v = w

\* both tasks of a batch that names one user twice have passed their checks
\* and the insert of the second has been refused
DuplicateInBatchRefused ==
  \E i \in Slots :
     /\ Running(i, "invite", "tasks")
     /\ Len(req[i].body.userIds) = 2
     /\ req[i].body.userIds[1] = req[i].body.userIds[2]
     /\ \E k, l \in 1..2 : /\ req[i].loc.task[k] = "created"
                            /\ req[i].loc.task[l] = "thrown"

(***************************************************************************)
(* Leave and the capacity check of join, one request at a time (SpecPlay)  *)
(***************************************************************************)
\* C12: when a leave has answered 200 and the next request is a leave by
\* the same user on the same session, that request is answered 400 (not a
\* member) at once and no table changes: the row stays inactive with the
\* leftAt of the first call.
SecondLeaveChangesNothing ==
  [][\A i \in {1} :
       (/\ Returned(i, "leave")
        /\ req[i].code = 200
        /\ req'[i] # req[i]
        /\ req'[i].op = "leave"
        /\ req'[i].user = req[i].user
        /\ req'[i].id = req[i].id) =>
         /\ req'[i].pc = "done"
         /\ req'[i].code = 400
         /\ store' = store
         /\ LET p == FindParticipant(req[i].id, req[i].user)
            IN /\ p # 0
               /\ ~vibeParticipants'[p].isActive
               /\ vibeParticipants'[p].leftAt # NoTime]_vars

\* a leave has been answered 400 for a user whose row is inactive and
\* carries a leftAt stamped before the present time
LeaveRefusedAfterLeave ==
  \E i \in Slots :
     /\ Returned(i, "leave")
     /\ req[i].code = 400
     /\ LET p == FindParticipant(req[i].id, req[i].user)
        IN /\ p # 0
           /\ ~vibeParticipants[p].isActive
           /\ vibeParticipants[p].leftAt # NoTime
           /\ vibeParticipants[p].leftAt < now

\* C14: a join by a user without an active row on an active session is
\* answered 400 (full) by the capacity check exactly when the number of
\* active rows of the session is at least maxMembers.
JoinFullIffActiveFull ==
  [][\A i \in {1} :
       (/\ Free(i)
        /\ req'[i] # req[i]
        /\ req'[i].op = "join"
        /\ SessionExists(req'[i].id)
        /\ vibeSessions[req'[i].id].isActive
        /\ ActiveRows(req'[i].id, req'[i].user) = {}) =>
         ((req'[i].pc = "done" /\ req'[i].code = 400)
            <=> Cardinality({p \in DOMAIN vibeParticipants :
                               /\ vibeParticipants[p].sessionId = req'[i].id
                               /\ vibeParticipants[p].isActive})
                  >= vibeSessions[req'[i].id].maxMembers)]_vars

(***************************************************************************)
(* Enqueue then advance, one request at a time (SpecAdvance)               *)
(***************************************************************************)
\* C13: an enqueue answered 200 on a session without unplayed items leaves
\* the new item, with the track of the request, as the only unplayed one;
\* and an authorized advance that ends on a session with exactly one
\* unplayed item answers 200 and leaves that item's track current, playing
\* at position 0, and the item played.  No store call lies between the
\* two requests, so enqueue then advance ends with the enqueued track.
EnqueueAdvanceRoundTrip ==
  [][\A i \in {1} :
       /\ (/\ req'[i].op = "enqueue" /\ req'[i].pc = "done"
           /\ req'[i] # req[i]
           /\ req'[i].code = 200
           /\ Unplayed(req'[i].id) = {}) =>
            \E q \in vibeQueue' :
               /\ {r \in vibeQueue' : r.sessionId = req'[i].id /\ ~r.played} = {q}
               /\ q.songId = req'[i].body.songId
               /\ q.songName = req'[i].body.songName
       /\ (/\ req'[i].op = "next" /\ req'[i].pc = "done"
           /\ req'[i] # req[i]
           /\ req'[i].code # 403
           /\ SessionExists(req'[i].id)
           /\ Cardinality(Unplayed(req'[i].id)) = 1) =>
            \E q \in Unplayed(req'[i].id) :
               /\ req'[i].code = 200
               /\ vibeSessions'[req'[i].id].currentSongId = q.songId
               /\ vibeSessions'[req'[i].id].currentSongName = q.songName
               /\ vibeSessions'[req'[i].id].isPlaying
               /\ vibeSessions'[req'[i].id].currentPosition = 0
               /\ vibeQueue' = (vibeQueue \ {q}) \cup {[q EXCEPT !.played = TRUE]}]_vars

\* an advance has answered 200 with the track of the one item of the
\* session's queue, which is now current and played
EnqueuedTrackPlaying ==
  \E i \in Slots :
     /\ Returned(i, "next")
     /\ req[i].code = 200
     /\ Has(req[i].loc, "nextSong")
     /\ \E q \in vibeQueue :
          /\ QueueOf(req[i].id) = {q}
          /\ q.played
          /\ q.id = req[i].loc.nextSong.id
          /\ vibeSessions[req[i].id].currentSongId = q.songId
          /\ vibeSessions[req[i].id].isPlaying

(***************************************************************************)
(* Invitations, one request at a time, the responses kept                  *)
(***************************************************************************)
Invitees == {1, 2, 3}

NextInvitation ==
  \E i \in {1} :
     \/ \E m \in Capacities : CreateSession(i, 1, "vibe", m)
     \/ \E u \in Users, sid \in SessionIds :
          \/ JoinStart(i, u, sid)
          \/ LeaveStart(i, u, sid)
     \/ \E u \in Invitees, sid \in SessionIds : InviteStart(i, 1, sid, <<u>>)
     \/ \E sid \in SessionIds : InviteStart(i, 1, sid, <<2, 3>>)
     \/ \E u \in Users, id \in 1..MaxInvitations :
          \/ AcceptStart(i, u, id)
          \/ DeclineStart(i, u, id)
     \/ JoinFind(i) \/ JoinReactivate(i) \/ JoinCreate(i)
     \/ LeaveUpdate(i)
     \/ \E k \in 1..2 : InviteCheckParticipant(i, k)
     \/ \E k \in 1..2 : InviteCheckPending(i, k)
     \/ \E k \in 1..2 : InviteCreate(i, k)
     \/ InviteReturn(i)
     \/ AcceptExpire(i) \/ AcceptFind(i) \/ AcceptReactivate(i)
     \/ AcceptCreate(i) \/ AcceptMark(i)
     \/ DeclineUpdate(i)

SpecInvitation == InitAudit /\ [][NextInvitation]_vars

\* C15: no command that has written part of its effect ends without the
\* rest: the last step of an accept that has activated the user's
\* participant row leaves the invitation accepted, or the row inactive
\* again.
AcceptAllOrNothing ==
  [][\A i \in {1} :
       (/\ req[i].op = "accept"
        /\ req[i].pc = "accepted"
        /\ req'[i] # req[i]) =>
         \/ vibeInvitations'[req[i].id].status = "accepted"
         \/ \A p \in DOMAIN vibeParticipants' :
               (/\ vibeParticipants'[p].sessionId = req[i].loc.sessionId
                /\ vibeParticipants'[p].userId = req[i].user)
                 => ~vibeParticipants'[p].isActive]_vars

\* C18: an invitation whose status is accepted, declined or expired keeps
\* that status in every step.
StatusChangesOnce ==
  [][\A id \in DOMAIN vibeInvitations :
       vibeInvitations[id].status # "pending" =>
         vibeInvitations'[id].status = vibeInvitations[id].status]_vars

\* C19: an accept by the invited user that has found the invitation
\* pending and the session below capacity ends with answer 200, the
\* invitation accepted and an active participant row of the user.
AcceptJoinsAndAccepts ==
  [][\A i \in {1} :
       (/\ req[i].op = "accept"
        /\ req[i].pc \in {"find", "create", "reactivate", "accepted", "already"}
        /\ req'[i].pc = "done") =>
         /\ req'[i].code = 200
         /\ vibeInvitations'[req[i].id].status = "accepted"
         /\ \E p \in DOMAIN vibeParticipants' :
              /\ vibeParticipants'[p].sessionId = req[i].loc.sessionId
              /\ vibeParticipants'[p].userId = req[i].user
              /\ vibeParticipants'[p].isActive]_vars

\* the active participant rows of a session
ActiveRowsOf(sid) ==
  {p \in DOMAIN vibeParticipants :
     vibeParticipants[p].sessionId = sid /\ vibeParticipants[p].isActive}

\* C20: an invite that names more users than maxMembers minus the number
\* of active participants is answered with an error by its first step and
\* creates no invitation.
InviteRejectedOverCapacity ==
  [][\A i \in {1} :
       (/\ Free(i)
        /\ req'[i] # req[i]
        /\ req'[i].op = "invite"
        /\ SessionExists(req'[i].id)
        /\ Len(req'[i].body.userIds) >
             vibeSessions[req'[i].id].maxMembers
               - Cardinality(ActiveRowsOf(req'[i].id))) =>
         /\ req'[i].pc = "done"
         /\ req'[i].code \in {400, 404}
         /\ vibeInvitations' = vibeInvitations]_vars

\* in a session of capacity 2 with two active participants the invite of a
\* third user has been answered 400
FullSessionInviteRefused ==
  \E i \in Slots :
     /\ Returned(i, "invite")
     /\ req[i].code = 400
     /\ req[i].body.userIds = <<3>>
     /\ vibeSessions[req[i].id].maxMembers = 2
     /\ Cardinality(ActiveRowsOf(req[i].id)) = 2
     /\ ~PendingInvite(req[i].id, 3)

(***************************************************************************)
(* Snapshot reads beside end and advance, two requests in flight, the      *)
(* responses kept                                                          *)
(***************************************************************************)
NextSnapshot ==
  \E i \in Slots :
     \/ CreateSession(i, 1, "vibe", 2)
     \/ \E u \in Users, sid \in SessionIds :
          \/ JoinStart(i, u, sid)
          \/ GetSession(i, u, sid)
     \/ \E sid \in SessionIds :
          \/ EndStart(i, 1, sid)
          \/ EnqueueStart(i, 1, sid, [songId |-> "s1", songName |-> "n1"])
          \/ NextStart(i, 1, sid)
     \/ JoinFind(i) \/ JoinReactivate(i) \/ JoinCreate(i)
     \/ EndSession(i) \/ EndParticipants(i)
     \/ EnqueueParticipant(i) \/ EnqueueMode(i) \/ EnqueueLast(i) \/ EnqueueCreate(i)
     \/ NextFind(i) \/ NextClear(i) \/ NextSet(i) \/ NextMark(i)

SpecSnapshot == InitAudit /\ [][NextSnapshot]_vars

\* C16: a session read answered while an end or an advance of that session
\* is between two of its writes shows the state before the first or after
\* the last of them: with the session already written inactive it lists no
\* active participant, and with the track already made current it does not
\* list that track's queue item as unplayed.
SnapshotNeverPartial ==
  [][\A i, j \in Slots :
       (/\ req'[i].op = "get"
        /\ req'[i] # req[i]
        /\ req'[i].code = 200
        /\ req[j].id = req'[i].id) =>
         /\ Running(j, "end", "participants") => req'[i].loc.participants = {}
         /\ Running(j, "next", "mark") =>
              req[j].loc.nextSong \notin req'[i].loc.queue]_vars

(***************************************************************************)
(* The playback routes and the socket handlers, one at a time, the         *)
(* responses and broadcasts kept                                           *)
(***************************************************************************)
SocketData ==
  [event : {"vibe:join", "vibe:leave"}, data : [userId : Users]]
    \cup [event : {"vibe:play_song"}, data : {[songId |-> "s1", songName |-> "n1"]}]
    \cup [event : {"vibe:toggle_play_pause"}, data : [isPlaying : BOOLEAN]]
    \cup [event : {"vibe:seek_to"}, data : [position : {7}]]
    \cup [event : {"vibe:add_to_queue"}, data : {[songId |-> "s1", songName |-> "n1"]}]
    \cup [event : {"vibe:end_session"}, data : {NoFields}]

NextSocket ==
  \/ NextPlay
  \/ \E i \in {1}, sid \in SessionIds, e \in SocketData :
       SocketOn(i, e.event, sid, e.data)

SpecSocket == InitAudit /\ [][NextSocket]_vars

\* C17: when an event is broadcast to a session's room, the store holds
\* the state the event announces: the song is the session's current song,
\* isPlaying and the position are the session's, the queue holds the
\* track, the session is ended, the user's row is active (joined) or
\* inactive (left).
BroadcastAfterWrite ==
  [][\A i \in {1} :
       (Has(req'[i].loc, "emit") /\ req'[i] # req[i]) =>
         LET sid == req'[i].id
             data == req'[i].body
             emit == req'[i].loc.emit
         IN /\ SessionExists(sid)
            /\ emit = "vibe:song_changed" =>
                 vibeSessions[sid].currentSongId = data.songId
            /\ emit = "vibe:play_pause" =>
                 vibeSessions[sid].isPlaying = data.isPlaying
            /\ emit = "vibe:seek" =>
                 vibeSessions[sid].currentPosition = data.position
            /\ emit = "vibe:queue_updated" =>
                 \E q \in QueueOf(sid) : q.songId = data.songId
            /\ emit = "vibe:session_ended" => ~vibeSessions[sid].isActive
            /\ emit = "vibe:participant_joined" =>
                 ActiveRows(sid, data.userId) # {}
            /\ emit = "vibe:participant_left" =>
                 ActiveRows(sid, data.userId) = {}]_vars

(***************************************************************************)
(* The frame of leave and the creator's return (SpecPlay)                  *)
(***************************************************************************)
\* C21: the write of a leave changes the leaving user's participant row
\* and nothing else (the session row, with isActive and endedAt, stays as
\* it is, also when the creator leaves); and a join by the creator who has
\* left, on the still active session with fewer active participants than
\* maxMembers, is not refused as full.
LeaveKeepsSessionCreatorReturns ==
  [][\A i \in {1} :
       /\ (Running(i, "leave", "update") /\ req'[i] # req[i]) =>
            /\ vibeSessions' = vibeSessions
            /\ vibeQueue' = vibeQueue
            /\ vibeInvitations' = vibeInvitations
            /\ DOMAIN vibeParticipants' = DOMAIN vibeParticipants
            /\ \A p \in DOMAIN vibeParticipants :
                  vibeParticipants'[p] # vibeParticipants[p] =>
                    /\ vibeParticipants[p].sessionId = req[i].id
                    /\ vibeParticipants[p].userId = req[i].user
       /\ (/\ Free(i)
           /\ req'[i] # req[i]
           /\ req'[i].op = "join"
           /\ SessionExists(req'[i].id)
           /\ vibeSessions[req'[i].id].isActive
           /\ IsCreator(req'[i].id, req'[i].user)
           /\ FindParticipant(req'[i].id, req'[i].user) # 0
           /\ ActiveRows(req'[i].id, req'[i].user) = {}
           /\ Cardinality(ActiveRowsOf(req'[i].id)) < vibeSessions[req'[i].id].maxMembers) =>
            ~(req'[i].pc = "done" /\ req'[i].code = 400)]_vars

(***************************************************************************)
(* Roles (SpecRows)                                                        *)
(***************************************************************************)
\* C22: after every step a participant row has role admin exactly when its
\* user is the creator of its session; no step changes the role of a row
\* or the creator of a session; and the step that creates a session adds
\* no participant row.
AdminIffCreator ==
  [][/\ \A p \in DOMAIN vibeParticipants' :
          vibeParticipants'[p].role = "admin"
            <=> vibeSessions'[vibeParticipants'[p].sessionId].creatorId
                  = vibeParticipants'[p].userId
     /\ \A p \in DOMAIN vibeParticipants :
          vibeParticipants'[p].role = vibeParticipants[p].role
     /\ \A sid \in DOMAIN vibeSessions :
          vibeSessions'[sid].creatorId = vibeSessions[sid].creatorId
     /\ Len(vibeSessions') # Len(vibeSessions) =>
          vibeParticipants' = vibeParticipants]_vars

\* the creator has joined through one route and another user through the
\* other: an admin row made by join or accept beside a member row
AdminAndMemberRows ==
  /\ \E p \in DOMAIN vibeParticipants :
       /\ vibeParticipants[p].role = "admin"
       /\ IsCreator(vibeParticipants[p].sessionId, vibeParticipants[p].userId)
  /\ \E p \in DOMAIN vibeParticipants :
       /\ vibeParticipants[p].role = "member"
       /\ ~IsCreator(vibeParticipants[p].sessionId, vibeParticipants[p].userId)
  /\ \E v \in DOMAIN vibeInvitations : vibeInvitations[v].status = "accepted"

(***************************************************************************)
(* Two advances in flight (SpecQueueRace)                                  *)
(***************************************************************************)
\* C23: when an advance makes a queue item the current track, the item is
\* still unplayed and no other advance has selected it: no other request
\* holds the same item as its nextSong with the session already written.
AdvanceDeliversOnce ==
  [][\A i \in Slots :
       (Running(i, "next", "set") /\ req'[i] # req[i]) =>
         /\ \E q \in vibeQueue : q.id = req[i].loc.nextSong.id /\ ~q.played
         /\ \A j \in Slots \ {i} :
              ~(/\ req[j].op = "next"
                /\ req[j].pc \in {"mark", "done"}
                /\ Has(req[j].loc, "nextSong")
                /\ req[j].loc.nextSong.id = req[i].loc.nextSong.id)]_vars

(***************************************************************************)
(* Batches of invitations, one request at a time (the tasks of one batch   *)
(* run side by side), the responses kept                                   *)
(***************************************************************************)
NextBatch ==
  \E i \in {1} :
     \/ \E m \in Capacities : CreateSession(i, 1, "vibe", m)
     \/ \E sid \in SessionIds :
          \/ \E u \in Users : JoinStart(i, u, sid)
          \/ \E u \in Users : LeaveStart(i, u, sid)
          \/ \E userIds \in Batches : InviteStart(i, 1, sid, userIds)
     \/ \E id \in 1..MaxInvitations : AcceptStart(i, 2, id)
     \/ JoinFind(i) \/ JoinReactivate(i) \/ JoinCreate(i)
     \/ LeaveUpdate(i)
     \/ \E k \in 1..2 : InviteCheckParticipant(i, k)
     \/ \E k \in 1..2 : InviteCheckPending(i, k)
     \/ \E k \in 1..2 : InviteCreate(i, k)
     \/ InviteReturn(i)
     \/ AcceptExpire(i) \/ AcceptFind(i) \/ AcceptReactivate(i)
     \/ AcceptCreate(i) \/ AcceptMark(i)

SpecBatch == InitAudit /\ [][NextBatch]_vars

\* C24: an invite that has passed the capacity check answers 200 with
\* exactly the invitations it has created; these are pending invitations
\* of the session for targets of the batch; and every target is then an
\* active participant or has a pending invitation.
BatchInvitesExactlyTheMissing ==
  [][\A i \in {1} :
       (Running(i, "invite", "tasks") /\ req'[i].pc = "done") =>
         LET sid == req[i].id
             userIds == req[i].body.userIds
         IN /\ req'[i].code = 200
            /\ \A v \in req[i].loc.sent :
                 /\ vibeInvitations[v].status = "pending"
                 /\ vibeInvitations[v].sessionId = sid
                 /\ \E k \in DOMAIN userIds : vibeInvitations[v].invitedUserId = userIds[k]
            /\ \A k \in DOMAIN userIds :
                 ActiveRows(sid, userIds[k]) # {} \/ PendingInvite(sid, userIds[k])]_vars

\* C25: a step that sets an invitation to expired is the write of an accept
\* by the invited user on that invitation, which was pending, with the
\* session's active participants at least maxMembers; the accept is
\* answered 400 and no participant row changes.
ExpiredOnlyByFullAccept ==
  [][\A id \in DOMAIN vibeInvitations :
       (vibeInvitations'[id].status = "expired"
          /\ vibeInvitations[id].status # "expired") =>
         /\ vibeInvitations[id].status = "pending"
         /\ vibeParticipants' = vibeParticipants
         /\ \E i \in {1} :
              /\ req[i].op = "accept"
              /\ req[i].id = id
              /\ req[i].user = vibeInvitations[id].invitedUserId
              /\ req'[i].pc = "done"
              /\ req'[i].code = 400
              /\ Cardinality(ActiveRowsOf(vibeInvitations[id].sessionId))
                   >= vibeSessions[vibeInvitations[id].sessionId].maxMembers]_vars

\* an accept has been answered 400 and has left its invitation expired,
\* the session being full without the invited user
ExpiredOnFullSession ==
  \E i \in Slots :
     /\ Returned(i, "accept")
     /\ req[i].code = 400
     /\ vibeInvitations[req[i].id].status = "expired"
     /\ ActiveRows(vibeInvitations[req[i].id].sessionId, req[i].user) = {}
     /\ Cardinality(ActiveRowsOf(vibeInvitations[req[i].id].sessionId))
          >= vibeSessions[vibeInvitations[req[i].id].sessionId].maxMembers

(***************************************************************************)
(* setCurrent over the queue (SpecAdvance) and the playback states         *)
(* (SpecPlay)                                                              *)
(***************************************************************************)
\* C26: the queue write of a setCurrent turns at most one item of the
\* session from unplayed to played, and changes no item of another track
\* or another session.
SetCurrentConsumesOne ==
  [][\A i \in {1} :
       (Running(i, "setCurrent", "queue") /\ req'[i] # req[i]) =>
         LET turned == {q \in vibeQueue : ~q.played /\ q \notin vibeQueue'}
         IN /\ Cardinality(turned) <= 1
            /\ \A q \in turned :
                 /\ q.sessionId = req[i].id
                 /\ q.songId = req[i].body.songId
                 /\ [q EXCEPT !.played = TRUE] \in vibeQueue'
            /\ \A q \in vibeQueue : q.played => q \in vibeQueue']_vars

\* C29: in every reachable state a session without a current track
\* (currentSongId null) is not playing.
NoPlayingWithoutTrack ==
  \A sid \in DOMAIN vibeSessions :
     vibeSessions[sid].currentSongId = Null => ~vibeSessions[sid].isPlaying

(***************************************************************************)
(* A queue of up to MaxLongQueue inserts, one request at a time            *)
(***************************************************************************)
NextLongQueue ==
  \E i \in {1} :
     \/ CreateSession(i, 1, "vibe", 2)
     \/ \E sid \in SessionIds :
          \/ \E body \in Tracks : EnqueueStartLong(i, 1, sid, body)
          \/ NextStart(i, 1, sid)
          \/ \E queueId \in 1..MaxLongQueue : RemoveStart(i, 1, sid, queueId)
          \/ SetCurrentStart(i, 1, sid, [songId |-> "s1", songName |-> "n1"])
     \/ EnqueueParticipant(i) \/ EnqueueMode(i) \/ EnqueueLast(i) \/ EnqueueCreate(i)
     \/ NextFind(i) \/ NextClear(i) \/ NextSet(i) \/ NextMark(i)
     \/ RemoveItem(i) \/ RemoveDelete(i)
     \/ SetCurrentWrite(i) \/ SetCurrentQueue(i)

SpecLongQueue == Init /\ [][NextLongQueue]_vars

\* C27: in every reachable state the positions of the unplayed items of a
\* session are pairwise different and leave no gap: every position between
\* two of them is the position of an unplayed item.
UnplayedPositionsContiguous ==
  \A sid \in DOMAIN vibeSessions :
     /\ \A q, r \in Unplayed(sid) : q.position = r.position => q = r
     /\ \A q, r \in Unplayed(sid) :
          \A n \in q.position..r.position :
             \E t \in Unplayed(sid) : t.position = n

(***************************************************************************)
(* Two sessions and their queues, one request at a time                    *)
(***************************************************************************)
NextTwoSessions ==
  \E i \in {1} :
     \/ \E u \in Users : CreateSessionOfTwo(i, u, "vibe", 2)
     \/ \E u \in Users, sid \in TwoSessionIds :
          \/ EnqueueStart(i, u, sid, [songId |-> "s1", songName |-> "n1"])
          \/ \E queueId \in 1..MaxQueue : RemoveStart(i, u, sid, queueId)
     \/ EnqueueParticipant(i) \/ EnqueueMode(i) \/ EnqueueLast(i) \/ EnqueueCreate(i)
     \/ RemoveItem(i) \/ RemoveDelete(i)

SpecTwoSessions == Init /\ [][NextTwoSessions]_vars

\* C28: the delete of a remove addressed to session S takes away only an
\* item of S.
RemoveStaysInSession ==
  [][\A i \in {1} :
       (Running(i, "remove", "delete") /\ req'[i] # req[i]) =>
         \A q \in vibeQueue \ vibeQueue' : q.sessionId = req[i].id]_vars

(***************************************************************************)
(* Who may use the socket handlers (SpecSocket)                            *)
(***************************************************************************)
\* C30: a socket handler adds its connection to a session's room only for
\* a user with an active participant row of the session, and relays an
\* event to the room only for a user who holds the capability of the
\* event: playback control for song, play/pause and seek events, queue
\* mutation for queue events, being the creator for the end of the
\* session.  (user is the authenticated user of the connection, 0 when
\* there is none; vibe:join names its user in its data.)
SocketNeedsCapability ==
  [][\A i \in {1} :
       (Has(req'[i].loc, "emit") /\ req'[i] # req[i]) =>
         LET sid == req'[i].id
             u == req'[i].user
             event == req'[i].op
         IN /\ SessionExists(sid)
            /\ event = "vibe:join" => ActiveRows(sid, req'[i].body.userId) # {}
            /\ event \in {"vibe:play_song", "vibe:toggle_play_pause", "vibe:seek_to"}
                 => CanControlPlayback(sid, u)
            /\ event = "vibe:add_to_queue" => CanMutateQueue(sid, u)
            /\ event = "vibe:end_session" => IsCreator(sid, u)]_vars

====
